---- MODULE Spec2Model ----
(***************************************************************************)
(* State-machine model of pyrcn/layers/_recurrent_layer.py:                *)
(* BaseRecurrentLayer (_validate_parameters, fit, transform) and           *)
(* RecurrentLayer._initialize_weight_matrices.                             *)
(*                                                                         *)
(* A matrix X is represented by its shape <<rows, cols>>.  A generated     *)
(* weight matrix is a record [shape, dense, dist, data, entries, scale]:   *)
(* dist is the distribution of the stored values ("uniform" on [-1, 1) for *)
(* rand(...) * 2 - 1, "normal" for randn(...)), data the generator output  *)
(* that fills them, entries the set of stored coordinates <<row, column>>, *)
(* scale the rational factor <<numerator, denominator>> the values were    *)
(* multiplied by in place.                                                 *)
(* An optional value (a Python attribute or local that may not exist yet)  *)
(* is <<>> when absent and <<v>> when present.                             *)
(*                                                                         *)
(* The free names of lines 160-186 (self.k_res, self.reservoir_size,       *)
(* self._random_state, eigens, ArpackNoConvergence) are not defined in the *)
(* file.  env records how they resolve: Unbound is the file as shipped;    *)
(* a bound environment is one in which the caller has supplied them        *)
(* (instance attributes k_res and reservoir_size, a generator              *)
(* self._random_state, and scipy.sparse.linalg's eigs and                  *)
(* ArpackNoConvergence under the two module-level names).                  *)
(***************************************************************************)
EXTENDS Integers, Sequences, FiniteSets, TLC

VARIABLES cfg, env, attrs, pc, loc, stream, result, last_ok, first

vars == <<cfg, env, attrs, pc, loc, stream, result, last_ok, first>>

\* ---------------------------------------------------------------- bounds
MaxComponents == 2
MaxFeatures == 2
MaxRows == 1
MaxRho == 2
MaxEig == 2
NVal == 2

\* ------------------------------------------------------ program constants
\* attempts = 50
Attempts == 50

\* pyrcn.activation_functions.ACTIVATIONS: the registry's keys
ACTIVATIONS == {"tanh"}

\* ---------------------------------------------------------------- helpers
Absent == <<>>
Some(v) == <<v>>

RECURSIVE Factorial(_)
Factorial(n) == IF n <= 1 THEN 1 ELSE n * Factorial(n - 1)

Min(a, b) == IF a <= b THEN a ELSE b

RemoveAt(s, i) == [j \in 1..(Len(s) - 1) |-> IF j < i THEN s[j] ELSE s[j + 1]]

Take(s, k) == [j \in 1..Min(k, Len(s)) |-> s[j]]

\* The inputs: matrices of every shape up to the bounds, the empty ones included.
Inputs == (0..MaxRows) \X (0..MaxFeatures)

\* The constructor's arguments (lines 16-39); nothing is validated there.
\* spectral_radius is stored and never read again.
Configs(k_ins, k_recs, rhos) ==
    [n_components : 0..MaxComponents,
     k_in : k_ins,
     k_rec : k_recs,
     activation_function : ACTIVATIONS \cup {"bogus"},
     spectral_radius : rhos,
     random_state : {Absent, Some(0)}]

Unbound == [bound |-> FALSE, k_res |-> 0, reservoir_size |-> 0]

BoundEnvs ==
    {[bound |-> TRUE, k_res |-> -1, reservoir_size |-> 1],
     [bound |-> TRUE, k_res |-> 1, reservoir_size |-> 2]}

NoAttrs ==
    [n_features_in_ |-> Absent, n_components_ |-> Absent,
     input_weights_ |-> Absent, bias_weights_ |-> Absent]

\* The attributes that differ between two attribute records.
Changed(a, b) == {f \in DOMAIN a : a[f] # b[f]}

\* The locals of one fit call: fit's own and _initialize_weight_matrices';
\* before holds the instance's attributes as they were when the call began.
NewFrame(X, before) ==
    [X |-> X, before |-> before, n_features |-> X[2], rs |-> 0, idx_co |-> 0, en |-> 0,
     nr_entries |-> 0, ij |-> <<<<>>, <<>>>>, data_vec |-> Absent,
     feedforward_weight_matrix |-> Absent, converged |-> FALSE,
     attempts |-> 0, we |-> Absent, reservoir_weights_init |-> Absent,
     solver_calls |-> 0]

Res(op, outcome, X, shape, reported) ==
    [op |-> op, outcome |-> outcome, X |-> X, shape |-> shape, reported |-> reported,
     solver_calls |-> 0, produced |-> Absent, changed |-> {}]

NoFrame == NewFrame(<<0, 0>>, NoAttrs)

NoResult == Res("none", "none", <<0, 0>>, Absent, Absent)

\* ------------------------------------------------------ library validation
\* sklearn's check_array with its defaults (ensure_min_samples = 1,
\* ensure_min_features = 1): TRUE when the matrix is accepted.
check_array(X) == X[1] >= 1 /\ X[2] >= 1

\* sklearn's check_is_fitted(self): the instance has an attribute whose name
\* ends with an underscore.
check_is_fitted(a) == \E f \in DOMAIN a : a[f] # Absent

\* -------------------------------------------------- _validate_parameters
\* Mutant: the comparison of k_in with n_features is missing.
validate_parameters_no_upper_k_in(c, n_features) ==
    IF c.k_in < 1 /\ c.k_in # -1 THEN "k_in must be -1 or greater than 0"
    ELSE IF c.n_components <= 0 THEN "n_components must be greater than 0"
    ELSE IF c.activation_function \notin ACTIVATIONS THEN "activation not supported"
    ELSE IF c.k_rec < 1 /\ c.k_rec # -1 THEN "k_rec must be -1 or greater than 0"
    ELSE IF c.k_rec > c.n_components THEN "k_rec must not be larger than n_components"
    ELSE "ok"

validate_parameters(c, n_features) ==
    IF c.k_in < 1 /\ c.k_in # -1 THEN "k_in must be -1 or greater than 0"
    ELSE IF c.k_in > n_features THEN "k_in must not be larger than n_features"
    ELSE IF c.n_components <= 0 THEN "n_components must be greater than 0"
    ELSE IF c.activation_function \notin ACTIVATIONS THEN "activation not supported"
    ELSE IF c.k_rec < 1 /\ c.k_rec # -1 THEN "k_rec must be -1 or greater than 0"
    ELSE IF c.k_rec > c.n_components THEN "k_rec must not be larger than n_components"
    ELSE "ok"

\* ------------------------------------------------------------------- Init
InitCommon ==
    /\ attrs = NoAttrs
    /\ pc = "idle"
    /\ loc = NoFrame
    /\ stream = <<>>
    /\ result = NoResult
    /\ last_ok = Absent
    /\ first = Absent

\* spectral_radius: float = 0.0
Init == InitCommon /\ env = Unbound /\ cfg \in Configs(-1..MaxFeatures, -1..MaxComponents, {0})

\* The free names supplied by the caller; the dense configuration
\* (k_in = -1, k_rec = -1).
InitBound == InitCommon /\ env \in BoundEnvs /\ cfg \in Configs({-1}, {-1}, 0..MaxRho)

\* The same with no seed and the default spectral_radius.
InitFitted ==
    /\ InitCommon
    /\ env \in BoundEnvs
    /\ cfg \in Configs({-1}, {-1}, {0})
    /\ cfg.random_state = Absent

\* -------------------------------------------------------------------- fit
\* fit, lines 82-88: input validation (which records n_features_in_),
\* parameter validation, and the assignment of n_components_.
FitBegin(X) ==
    /\ pc = "idle"
    /\ UNCHANGED <<cfg, env, stream, last_ok, first>>
    /\ IF ~check_array(X)
       THEN /\ result' = Res("fit", "DataError", X, Absent, Absent)
            /\ UNCHANGED <<attrs, pc, loc>>
       ELSE LET a1 == [attrs EXCEPT !.n_features_in_ = Some(X[2])]
            IN  IF validate_parameters(cfg, X[2]) # "ok"
                THEN /\ result' = [Res("fit", "ConfigError", X, Absent, Absent)
                                       EXCEPT !.changed = Changed(a1, attrs)]
                     /\ attrs' = a1
                     /\ UNCHANGED <<pc, loc>>
                ELSE /\ result' = Res("fit", "running", X, Absent, Absent)
                     /\ attrs' = [a1 EXCEPT !.n_components_ = Some(cfg.n_components)]
                     /\ pc' = "gen"
                     /\ loc' = NewFrame(X, attrs)

\* -------------------------------------------------------------- transform
\* Mutant: the input's columns are compared with the rows of the weights.
shape_mismatch_against_rows(X, W) == X[2] # W.shape[1]

\* if X.shape[1] != self.input_weights_.shape[1]
shape_mismatch(X, W) == X[2] # W.shape[2]

transform_result(a, X) ==
    IF ~check_array(X) THEN Res("transform", "DataError", X, Absent, Absent)
    ELSE IF ~check_is_fitted(a) THEN Res("transform", "NotFittedError", X, Absent, Absent)
    ELSE IF a.input_weights_ = Absent
         THEN Res("transform", "AttributeError", X, Absent, Absent)
    ELSE LET W == a.input_weights_[1]
         IN  IF shape_mismatch(X, W)
             THEN Res("transform", "ShapeMismatch", X, Absent, <<X[2], W.shape[2]>>)
             ELSE IF a.bias_weights_ = Absent
                  THEN Res("transform", "AttributeError", X, Absent, Absent)
                  ELSE Res("transform", "ok", X, <<X[1], W.shape[1]>>, Absent)

Transform(X) ==
    /\ pc = "idle"
    /\ UNCHANGED <<cfg, env, attrs, pc, loc, stream, last_ok, first>>
    /\ result' = [transform_result(attrs, X) EXCEPT !.changed = Changed(attrs', attrs)]

\* ------------------------------------------------------ random generators
\* random_state = check_random_state(self.random_state): an integer seed gives
\* a fresh generator whose outputs are a function of the seed and the position
\* in its stream; stream holds the outputs revealed so far.  With no seed the
\* generator is numpy's global one and every output is arbitrary.
seeded == cfg.random_state # Absent

\* t is the output of the p-th call on the local generator, of n possible ones.
local_draw(p, t, n) ==
    IF seeded /\ p <= Len(stream) THEN t = stream[p] % n ELSE t \in 0..(n - 1)

stream_after(p, t) ==
    IF seeded /\ p > Len(stream) THEN Append(stream, t) ELSE stream

\* RandomState.permutation(n) for generator output t: the t-th permutation of
\* 0..n-1.
RECURSIVE shuffle(_, _)
shuffle(pool, t) ==
    IF pool = <<>> THEN <<>>
    ELSE LET i == (t % Len(pool)) + 1
         IN  <<pool[i]>> \o shuffle(RemoveAt(pool, i), t \div Len(pool))

\* Mutant: n column indices drawn with replacement.
permutation_with_replacement(n, t) == [i \in 1..n |-> (t \div i) % n]

permutation(n, t) == shuffle([i \in 1..n |-> i - 1], t)

\* ---------------------------------------------------------- numpy / scipy
\* buf[start:stop] = vals: the slice is clipped to the buffer; vals must have
\* the slice's length or length one (broadcast), otherwise numpy raises.
set_slice(buf, start, stop, vals) ==
    LET lo == Min(start, Len(buf))
        hi == Min(stop, Len(buf))
        ok == Len(vals) = hi - lo \/ Len(vals) = 1
    IN  [ok |-> ok,
         buf |-> IF ~ok THEN buf
                 ELSE [j \in 1..Len(buf) |->
                         IF lo < j /\ j <= hi
                         THEN (IF Len(vals) = 1 THEN vals[1] ELSE vals[j - lo])
                         ELSE buf[j]]]

\* np.zeros((2, nr_entries), dtype=int)
zeros(n) == <<[j \in 1..n |-> 0], [j \in 1..n |-> 0]>>

\* One pass of the row loop (lines 149-152 and 170-173) for row en and the
\* drawn permutation p of the column indices.
fill_row(ij, idx_co, en, k, p) ==
    LET per == Take(p, k)
        r0 == set_slice(ij[1], idx_co, idx_co + k, <<en>>)
        r1 == set_slice(ij[2], idx_co, idx_co + k, per)
    IN  [ok |-> r0.ok /\ r1.ok, ij |-> <<r0.buf, r1.buf>>, idx_co |-> idx_co + k]

\* scipy.sparse.csc_matrix((data_vec, ij), shape=...): the stored entries are
\* the distinct coordinates (duplicates are summed into one entry); an index
\* outside the shape raises.
csc_ok(ij, shape) ==
    \A j \in 1..Len(ij[1]) :
        /\ 0 <= ij[1][j] /\ ij[1][j] < shape[1]
        /\ 0 <= ij[2][j] /\ ij[2][j] < shape[2]

csc_matrix(dist, data, ij, shape) ==
    [shape |-> shape, dense |-> FALSE, dist |-> dist, data |-> data,
     entries |-> {<<ij[1][j], ij[2][j]>> : j \in 1..Len(ij[1])},
     scale |-> <<1, 1>>]

\* random_state.rand(r, c) / randn(r, c): a dense matrix
dense_matrix(dist, data, shape) ==
    [shape |-> shape, dense |-> TRUE, dist |-> dist, data |-> data,
     entries |-> (0..(shape[1] - 1)) \X (0..(shape[2] - 1)),
     scale |-> <<1, 1>>]

\* random_state.rand(n): a dense vector
dense_vector(dist, data, n) ==
    [shape |-> <<n>>, dense |-> TRUE, dist |-> dist, data |-> data,
     entries |-> {<<i>> : i \in 0..(n - 1)}, scale |-> <<1, 1>>]

\* m *= (1. / np.amax(np.absolute(we))), with mx the maximum magnitude
rescale(m, rho, mx) == [m EXCEPT !.scale = <<m.scale[1] * 1, m.scale[2] * mx>>]

\* ------------------------------------------- _initialize_weight_matrices
n_components_ == attrs.n_components_[1]

\* An exception leaves fit: the frame is gone, the attributes stay as they are.
Raise(kind, solver_calls) ==
    /\ result' = [Res("fit", kind, loc.X, Absent, Absent)
                     EXCEPT !.solver_calls = solver_calls,
                            !.changed = Changed(attrs, loc.before)]
    /\ attrs' = attrs
    /\ pc' = "idle"
    /\ loc' = NoFrame

\* lines 138-147 (and 157-159 on the dense path)
GenInit ==
    /\ pc = "gen"
    /\ UNCHANGED <<cfg, env, attrs, result, last_ok, first>>
    /\ \E t \in 0..(NVal - 1) :
        /\ local_draw(1, t, NVal)
        /\ stream' = stream_after(1, t)
        /\ IF cfg.k_in = -1
           THEN /\ loc' = [loc EXCEPT
                      !.rs = 1,
                      !.feedforward_weight_matrix =
                          Some(dense_matrix("uniform", t, <<n_components_, loc.n_features>>)),
                      !.converged = FALSE,
                      !.attempts = Attempts]
                /\ pc' = "rec"
           ELSE /\ loc' = [loc EXCEPT
                      !.rs = 1,
                      !.nr_entries = n_components_ * cfg.k_in,
                      !.ij = zeros(n_components_ * cfg.k_in),
                      !.data_vec = Some(t)]
                /\ pc' = "ff_loop"

\* lines 148-152: one iteration of "for en in range(self.n_components_)"
FeedforwardRow ==
    /\ pc = "ff_loop"
    /\ loc.en < n_components_
    /\ UNCHANGED <<cfg, env, attrs, last_ok, first>>
    /\ \E t \in 0..(Factorial(loc.n_features) - 1) :
        /\ local_draw(loc.rs + 1, t, Factorial(loc.n_features))
        /\ stream' = stream_after(loc.rs + 1, t)
        /\ LET r == fill_row(loc.ij, loc.idx_co, loc.en, cfg.k_in,
                             permutation(loc.n_features, t))
           IN  IF r.ok
               THEN /\ loc' = [loc EXCEPT !.rs = loc.rs + 1, !.ij = r.ij,
                                          !.idx_co = r.idx_co, !.en = loc.en + 1]
                    /\ UNCHANGED <<pc, result>>
               ELSE Raise("ValueError", 0)

\* lines 153-159: the loop is over; build the sparse matrix
FeedforwardBuild ==
    /\ pc = "ff_loop"
    /\ loc.en >= n_components_
    /\ UNCHANGED <<cfg, env, attrs, stream, last_ok, first>>
    /\ LET shape == <<n_components_, loc.n_features>>
       IN  IF csc_ok(loc.ij, shape)
           THEN /\ loc' = [loc EXCEPT
                      !.feedforward_weight_matrix =
                          Some(csc_matrix("uniform", loc.data_vec[1], loc.ij, shape)),
                      !.converged = FALSE,
                      !.attempts = Attempts]
                /\ pc' = "rec"
                /\ UNCHANGED result
           ELSE Raise("ValueError", 0)

\* lines 162-177: the recurrent matrix, drawn from self._random_state, whose
\* state is not created from the seed in this call: d and perms are arbitrary.
RECURSIVE fill_rows(_, _, _, _, _, _)
fill_rows(ij, idx_co, en, n, k, perms) ==
    IF en >= n THEN [ok |-> TRUE, ij |-> ij]
    ELSE LET r == fill_row(ij, idx_co, en, k, perms[en + 1])
         IN  IF ~r.ok THEN [ok |-> FALSE, ij |-> r.ij]
             ELSE fill_rows(r.ij, r.idx_co, en + 1, n, k, perms)

reservoir_weights(e, d, perms) ==
    IF e.k_res = -1
    THEN [ok |-> TRUE, m |-> dense_matrix("normal", d, <<e.reservoir_size, e.reservoir_size>>)]
    ELSE LET f == fill_rows(zeros(e.reservoir_size * e.k_res), 0, 0,
                            e.reservoir_size, e.k_res, perms)
             shape == <<e.reservoir_size, e.reservoir_size>>
         IN  [ok |-> f.ok /\ csc_ok(f.ij, shape), m |-> csc_matrix("normal", d, f.ij, shape)]

all_permutations(n) == {permutation(n, t) : t \in 0..(Factorial(n) - 1)}

\* lines 160-186: one pass of "while not converged and attempts > 0".
\* mx = 0 stands for the solver raising ArpackNoConvergence, mx > 0 for its
\* converging with largest eigenvalue magnitude mx.
RecurrentAttempt ==
    /\ pc = "rec"
    /\ ~loc.converged /\ loc.attempts > 0
    /\ UNCHANGED <<cfg, env, attrs, stream, last_ok, first>>
    /\ IF ~env.bound
       THEN \* self.k_res raises AttributeError; matching it against the
            \* except clause evaluates the unbound name ArpackNoConvergence
            Raise("NameError", loc.solver_calls)
       ELSE \E d \in 0..(NVal - 1), mx \in 0..MaxEig,
               perms \in [1..env.reservoir_size -> all_permutations(env.reservoir_size)] :
            LET g == reservoir_weights(env, d, perms)
            IN  IF ~g.ok
                THEN Raise("ValueError", loc.solver_calls)
                ELSE IF mx > 0
                THEN /\ loc' = [loc EXCEPT
                           !.reservoir_weights_init = Some(g.m),
                           !.solver_calls = loc.solver_calls + 1,
                           !.we = Some(mx),
                           !.converged = TRUE]
                     /\ UNCHANGED <<pc, result>>
                ELSE \* except ArpackNoConvergence: ... the class has no
                     \* attribute eigenvalues (only its instances have)
                     Raise("AttributeError", loc.solver_calls + 1)

\* line 188: the loop is over
Normalize ==
    /\ pc = "rec"
    /\ ~(~loc.converged /\ loc.attempts > 0)
    /\ UNCHANGED <<cfg, env, attrs, stream, result, last_ok, first>>
    /\ loc' = [loc EXCEPT !.reservoir_weights_init =
                  Some(rescale(loc.reservoir_weights_init[1], cfg.spectral_radius,
                               loc.we[1]))]
    /\ pc' = "bias"

\* lines 190-191 and fit's lines 92-98
FitReturn ==
    /\ pc = "bias"
    /\ UNCHANGED <<cfg, env>>
    /\ \E t \in 0..(NVal - 1) :
        /\ local_draw(loc.rs + 1, t, NVal)
        /\ stream' = stream_after(loc.rs + 1, t)
        /\ LET ffw == loc.feedforward_weight_matrix[1]
               bias == dense_vector("uniform", t, n_components_)
               out == [feedforward |-> ffw, bias |-> bias,
                       recurrent |-> loc.reservoir_weights_init[1]]
           IN  /\ attrs' = [attrs EXCEPT !.input_weights_ = Some(ffw),
                                         !.bias_weights_ = Some(bias)]
               /\ pc' = "idle"
               /\ loc' = NoFrame
               /\ IF ffw.shape = <<n_components_, loc.n_features>>
                  THEN /\ result' = [Res("fit", "ok", loc.X, Absent, Absent)
                                        EXCEPT !.solver_calls = loc.solver_calls,
                                               !.produced = Some(out),
                                               !.changed = Changed(attrs', loc.before)]
                       /\ last_ok' = Some(loc.X)
                       /\ first' = IF seeded /\ first = Absent
                                   THEN Some([n_features |-> loc.n_features,
                                              produced |-> out])
                                   ELSE first
                  ELSE /\ result' = [Res("fit", "AssertionError", loc.X, Absent, Absent)
                                        EXCEPT !.changed = Changed(attrs', loc.before)]
                       /\ UNCHANGED <<last_ok, first>>

\* ------------------------------------------------------- specifications
\* The file as shipped: the loop of lines 160-186 raises on its first pass.
Next ==
    \/ \E X \in Inputs : FitBegin(X)
    \/ \E X \in Inputs : Transform(X)
    \/ GenInit
    \/ FeedforwardRow
    \/ FeedforwardBuild
    \/ RecurrentAttempt

Spec == Init /\ [][Next]_vars

\* The file with its free names supplied by the caller, for the dense
\* feedforward configuration (k_in = -1), which never enters the row loop.
NextBound ==
    \/ \E X \in Inputs : FitBegin(X)
    \/ \E X \in Inputs : Transform(X)
    \/ GenInit
    \/ RecurrentAttempt
    \/ Normalize
    \/ FitReturn

SpecBound == InitBound /\ [][NextBound]_vars

SpecFitted == InitFitted /\ [][NextBound]_vars

\* ================================================================ claims
FitEnded == result.op = "fit" /\ result.outcome # "running"

FitFailed == FitEnded /\ result.outcome # "ok"

\* The configuration constraints as the data model states them.
ValidConfig(c, n_features) ==
    /\ c.n_components > 0
    /\ (c.k_in = -1 \/ (1 <= c.k_in /\ c.k_in <= n_features))
    /\ (c.k_rec = -1 \/ (1 <= c.k_rec /\ c.k_rec <= c.n_components))
    /\ c.activation_function \in ACTIVATIONS

\* C1: a fit call that fails leaves the fitted state as it was before the
\* call: none of the attributes fit assigns (n_components_, input_weights_,
\* bias_weights_) is created or changed.
C1_FailedFitLeavesStateUnchanged ==
    FitFailed =>
        result.changed \cap {"n_components_", "input_weights_", "bias_weights_"} = {}

\* C2: for a valid configuration and an input the input validation accepts,
\* fit completes without error, and transform of the same input on the fitted
\* instance returns a matrix of shape [rows(X), n_components].
C2_ValidConfigFitCompletes ==
    /\ (FitEnded /\ check_array(result.X) /\ ValidConfig(cfg, result.X[2]))
           => result.outcome = "ok"
    /\ (result.op = "transform" /\ last_ok = Some(result.X))
           => /\ result.outcome = "ok"
              /\ result.shape = <<result.X[1], cfg.n_components>>

\* C3: transform on an instance that has had no successful fit fails with
\* NotFittedError, whatever failed fit calls came before.
C3_TransformBeforeFitNotFitted ==
    (result.op = "transform" /\ last_ok = Absent /\ check_array(result.X))
        => result.outcome = "NotFittedError"

RejectedByContract(c, n_features) ==
    \/ c.k_in # -1 /\ c.k_in < 1
    \/ c.k_in > n_features
    \/ c.n_components <= 0
    \/ c.activation_function \notin ACTIVATIONS
    \/ c.k_rec # -1 /\ (c.k_rec < 1 \/ c.k_rec > c.n_components)

\* C5: whenever the configuration and the feature count of the fit input meet
\* one of the contract's conditions, fit raises a configuration error, and it
\* does so in validation: no generation step of that call ever runs.
C5_InvalidConfigRejected ==
    /\ pc # "idle" => ~RejectedByContract(cfg, loc.n_features)
    /\ (FitEnded /\ check_array(result.X) /\ RejectedByContract(cfg, result.X[2]))
           => /\ result.outcome = "ConfigError"
              /\ result.produced = Absent
              /\ loc = NoFrame

C5_Witness ==
    /\ result.op = "fit"
    /\ result.outcome = "ConfigError"
    /\ cfg.k_in > result.X[2]
    /\ cfg.n_components > 0
    /\ cfg.activation_function \in ACTIVATIONS

RowEntries(m, r) == {e \in m.entries : e[1] = r}

StoredMatrices(a) ==
    {a[f][1] : f \in {g \in {"input_weights_", "bias_weights_"} : a[g] # Absent}}

====
